---- MODULE Spec2Model ----
(***************************************************************************)
(* A model of readabs: the ABSQuery session of readabs/abs_query.py and    *)
(* the asyncio transport of readabs/connection.py.                         *)
(*                                                                         *)
(* Python values are represented as follows.                               *)
(*   - a str is a sequence of one-character strings, so that substring,    *)
(*     suffix and truthiness tests are computed and not assumed;           *)
(*   - Optional[T] is a sequence of length 0 (None) or 1 (Some(x));        *)
(*   - a dict is the sequence of its <<key, value>> items in insertion     *)
(*     order, which is the order Python iterates and pops them in.         *)
(***************************************************************************)
EXTENDS Integers, Sequences, FiniteSets, TLC

None == <<>>
Some(x) == <<x>>

\* All sequences over S of length at most n.
SeqsUpTo(S, n) == UNION {[1..k -> S] : k \in 0..n}

\* Python's `sub in s` for str: sub occurs in s as a contiguous run.
Contains(sub, s) ==
    \E i \in 0..(Len(s) - Len(sub)) :
        \A j \in 1..Len(sub) : s[i + j] = sub[j]

(***************************************************************************)
(* ABSQuery.__init__ : the identifier sum type.                            *)
(***************************************************************************)

MaxCatLen == 3
CatChars == {"6", ".", "0", "\n"}
CatnoArgs == {None} \cup {Some(s) : s \in SeqsUpTo(CatChars, MaxCatLen)}
SeriesIDArgs == {None, Some(<<>>), Some(<<"A">>)}

\* Python truthiness of an Optional[str]: None and "" are both falsy.
Truthy(opt) == opt # None /\ opt[1] # <<>>

\* re.search(r"\.0$", s): `$` matches at the end of the string and also
\* just before a newline that is the last character of the string.
SearchDot0(s) ==
    LET n == Len(s) IN
        \/ n >= 2 /\ s[n - 1] = "." /\ s[n] = "0"
        \/ n >= 3 /\ s[n] = "\n" /\ s[n - 2] = "." /\ s[n - 1] = "0"

MsgCatno == "catno must end in '.0'"
MsgNeither == "Either catno or seriesID must be provided"

\* The outcome of ABSQuery(catno, seriesID).
__init__(catno, seriesID) ==
    IF Truthy(catno)
      THEN IF SearchDot0(catno[1])
             THEN [kind |-> "ok", tag |-> "CatNo", value |-> catno[1], msg |-> ""]
             ELSE [kind |-> "ABSQueryError", tag |-> "", value |-> <<>>, msg |-> MsgCatno]
      ELSE IF Truthy(seriesID)
             THEN [kind |-> "ok", tag |-> "SeriesID", value |-> seriesID[1], msg |-> ""]
             ELSE [kind |-> "ABSQueryError", tag |-> "", value |-> <<>>, msg |-> MsgNeither]

(***************************************************************************)
(* ABSQuery._process_dataframes : one workbook to one merged table.        *)
(***************************************************************************)

MaxSheets == 2
MaxRows == 2

DataSheet1 == <<"D", "a", "t", "a", "1">>
DataSheet2 == <<"D", "a", "t", "a", "2">>
IndexSheet == <<"I", "n", "d", "e", "x">>
SheetNames == {DataSheet1, DataSheet2, IndexSheet}

\* Cells of a sheet's first column: date cells, and the text cells of the
\* decorative rows ("Unit", "Series Type", ...) above the observations.
DateCells == {[type |-> "datetime", v |-> 1], [type |-> "datetime", v |-> 2]}
HeaderCells == {[type |-> "str", v |-> 0]}
Cells == DateCells \cup HeaderCells

\* Header of the first column as pandas names it: "Unnamed: 0" when the
\* header cell is blank, the cell's text otherwise.
IndexCols == {"Unnamed: 0", "Series"}

SheetBodies == [index_col : IndexCols, cells : SeqsUpTo(Cells, MaxRows)]

\* The sheet names of a workbook of k sheets, in workbook order: sheet names
\* are unique within a workbook.
SheetNamesOf(k) ==
    {f \in [1..k -> SheetNames] : \A i, j \in 1..k : f[i] = f[j] => i = j}

Workbook(names, bodies) ==
    [i \in 1..Len(names) |-> [name |-> names[i], body |-> bodies[i]]]

\* pd.read_excel(sheet_name = s): the first column is the key column; every
\* sheet carries one observation column, whose cell records where it came from.
ReadExcel(sheet) ==
    [key |-> sheet.body.index_col,
     width |-> 1,
     rows |-> [i \in 1..Len(sheet.body.cells) |->
                 [k |-> sheet.body.cells[i], data |-> << <<sheet.name, i>> >>]]]

EmptyDF == [key |-> "", width |-> 0, rows |-> <<>>]

_rename_cols(df) ==
    [df EXCEPT !.key = IF df.key = "Unnamed: 0" THEN "Date" ELSE df.key]

\* isinstance(e, datetime.datetime)
IsDatetime(e) == e.type = "datetime"

\* A header filter that keeps every row.
_remove_ABS_headers_keep_all(df) ==
    IF df.key # "Date"
      THEN [kind |-> "KeyError", df |-> EmptyDF]
      ELSE [kind |-> "ok", df |-> df]

\* df['Date'] raises KeyError when no column is called Date.
_remove_ABS_headers(df) ==
    IF df.key # "Date"
      THEN [kind |-> "KeyError", df |-> EmptyDF]
      ELSE LET notHeader(r) == IsDatetime(r.k)
           IN [kind |-> "ok", df |-> [df EXCEPT !.rows = SelectSeq(df.rows, notHeader)]]

_format_ABS_df(df) == _remove_ABS_headers(_rename_cols(df))

\* The rows of y that join with row r of x, in y's order.
JoinRow(r, yrows) ==
    LET same(q) == q.k = r.k
        hits == SelectSeq(yrows, same)
    IN [i \in 1..Len(hits) |-> [k |-> r.k, data |-> r.data \o hits[i].data]]

RECURSIVE JoinRows(_, _)
JoinRows(xrows, yrows) ==
    IF xrows = <<>> THEN <<>>
    ELSE JoinRow(Head(xrows), yrows) \o JoinRows(Tail(xrows), yrows)

\* pd.merge(x, y, on = 'Date'): the inner join on equal Date values.
Merge(x, y) ==
    [key |-> "Date", width |-> x.width + y.width, rows |-> JoinRows(x.rows, y.rows)]

\* functools.reduce(f, xs) without an initial value, xs not empty.
RECURSIVE ReduceMerge(_)
ReduceMerge(dfs) ==
    IF Len(dfs) = 1 THEN dfs[1]
    ELSE Merge(ReduceMerge(SubSeq(dfs, 1, Len(dfs) - 1)), dfs[Len(dfs)])

IsDataSheet(sheet) == Contains(<<"D", "a", "t", "a">>, sheet.name)

_process_dataframes(workbook) ==
    LET df_list == [i \in 1..Len(SelectSeq(workbook, IsDataSheet)) |->
                       ReadExcel(SelectSeq(workbook, IsDataSheet)[i])]
        remove_headers == [i \in 1..Len(df_list) |-> _format_ABS_df(df_list[i])]
    IN IF \E i \in 1..Len(remove_headers) : remove_headers[i].kind # "ok"
         THEN [kind |-> "KeyError", df |-> EmptyDF]
       ELSE IF remove_headers = <<>>
         \* reduce() of an empty sequence with no initial value
         THEN [kind |-> "TypeError", df |-> EmptyDF]
       ELSE [kind |-> "ok",
             df |-> ReduceMerge([i \in 1..Len(remove_headers) |-> remove_headers[i].df])]

(***************************************************************************)
(* The directory endpoint (TSSearchServlet) as the session sees it.        *)
(***************************************************************************)

MaxPages == 3
MaxCalls == 2

Title1 == <<"T", "a">>
Title2 == <<"t", "a">>
URL1 == <<"u", "1">>
URL2 == <<"u", "2">>

\* <Series> elements; a child with text <<>> is a child with no text.
Series1 == [TableTitle |-> Title1, TableURL |-> URL1]
Series2 == [TableTitle |-> Title2, TableURL |-> URL2]
Series3 == [TableTitle |-> Title1, TableURL |-> URL2]
SeriesNoText == [TableTitle |-> Title2, TableURL |-> <<>>]

\* The <Series> children of one directory page, in document order.
PageBodies ==
    {<<>>, <<Series1>>, <<Series1, Series2>>, <<Series2, Series3>>,
     <<SeriesNoText>>, <<Series1, SeriesNoText>>}

Digits == <<"0", "1", "2", "3", "4", "5", "6", "7", "8", "9">>

\* The <NumPages> child of a page: absent, without text, or a count.
NumPagesFields ==
    {None, Some(<<>>)} \cup {Some(<<Digits[n + 1]>>) : n \in 0..MaxPages}

\* int(num_pages_str) for a one-digit count.
IntOf(text) == (CHOOSE i \in 1..10 : Digits[i] = text[1]) - 1

\* range(2, num_pages_int + 1), empty unless the three nested tests pass.
ExtraPages(num_pages) ==
    IF num_pages # None /\ num_pages[1] # <<>> /\ IntOf(num_pages[1]) > 1
      THEN 2..IntOf(num_pages[1])
      ELSE {}

\* Titles searched for by the callers of the session.
TitleArgs == {<<>>, <<"T">>, <<"a">>, <<"x">>}

Ops == {"get_table_names", "get_table_links", "get_dataframe", "get_first_dataframe"}
Calls ==
    {[op |-> "get_table_names", arg |-> <<>>]} \cup
    [op : Ops \ {"get_table_names"}, arg : TitleArgs]

\* Workbooks the download URLs serve.
Hdr == [type |-> "str", v |-> 0]
Day1 == [type |-> "datetime", v |-> 1]
Day2 == [type |-> "datetime", v |-> 2]
WbOneSheet ==
    << [name |-> DataSheet1, body |-> [index_col |-> "Unnamed: 0", cells |-> <<Hdr, Day1>>]] >>
WbTwoSheets ==
    << [name |-> DataSheet1, body |-> [index_col |-> "Unnamed: 0", cells |-> <<Day1, Day2>>]],
       [name |-> DataSheet2, body |-> [index_col |-> "Unnamed: 0", cells |-> <<Hdr, Day2>>]] >>
WbNoData ==
    << [name |-> IndexSheet, body |-> [index_col |-> "Unnamed: 0", cells |-> <<Hdr, Day1>>]] >>
WbNoDate ==
    << [name |-> DataSheet1, body |-> [index_col |-> "Series", cells |-> <<Hdr, Day1>>]] >>
ServedWorkbooks == {WbOneSheet, WbTwoSheets, WbNoData, WbNoDate}

(***************************************************************************)
(* The pure parts of the session.                                          *)
(***************************************************************************)

\* `if not self.series_list`: None and [] are both falsy.
NeedsFetch(sl) == sl = None \/ sl[1] = <<>>

\* A gather that hands the results back as they completed.
GatherAsCompleted(got, arrival) == [i \in 1..Len(arrival) |-> got[arrival[i]][1]]

\* asyncio.gather(*tasks): the results in the order of the awaitables,
\* whatever the order `arrival` in which they completed.
Gather(got, arrival) == [i \in 1..Len(arrival) |-> got[i + 1][1]]

RECURSIVE Flatten(_)
Flatten(ss) == IF ss = <<>> THEN <<>> ELSE Head(ss) \o Flatten(Tail(ss))

\* return_element.extend(additional_pages); xml.iter('Series'): the page
\* roots are appended after page 1's own children and iterated in document
\* order. Only page 1's NumPages is a direct child of the root.
IterSeries(page1, additional_pages) == page1 \o Flatten(additional_pages)

HasText(series) == series.TableTitle # <<>> /\ series.TableURL # <<>>

\* A loop that skips a Series with an empty child instead of raising.
ParseSeriesSkipping(elems) == [kind |-> "ok", list |-> SelectSeq(elems, HasText)]

\* The loop of _get_serieslist over the Series elements.
ParseSeries(elems) ==
    IF \E i \in 1..Len(elems) : ~HasText(elems[i])
      THEN [kind |-> "ABSQueryError", list |-> <<>>]
      ELSE [kind |-> "ok", list |-> elems]

\* An assignment that keeps the value a key already has.
DictSetKeepFirst(d, k, v) ==
    IF \E i \in 1..Len(d) : d[i][1] = k THEN d ELSE Append(d, <<k, v>>)

\* d[k] = v on an insertion-ordered dict.
DictSet(d, k, v) ==
    IF \E i \in 1..Len(d) : d[i][1] = k
      THEN [i \in 1..Len(d) |-> IF d[i][1] = k THEN <<k, v>> ELSE d[i]]
      ELSE Append(d, <<k, v>>)

\* {elem['TableTitle']: elem['TableURL'] for elem in series_list}
RECURSIVE TableInfoOf(_)
TableInfoOf(list) ==
    IF list = <<>> THEN <<>>
    ELSE LET last == list[Len(list)]
         IN DictSet(TableInfoOf(SubSeq(list, 1, Len(list) - 1)),
                    last.TableTitle, last.TableURL)

\* A filter that tests `table_title == k` instead of `table_title in k`.
FilterLinksExact(info, table_title) ==
    LET hit(kv) == table_title = kv[1] IN SelectSeq(info, hit)

\* {k:v for k, v in table_info.items() if table_title in k}
FilterLinks(info, table_title) ==
    LET hit(kv) == Contains(table_title, kv[1]) IN SelectSeq(info, hit)

Keys(d) == {d[i][1] : i \in 1..Len(d)}

\* dict.popitem(): the item inserted last.
PopItem(d) == d[Len(d)]

MsgSeriesList == "._get_serieslist() did not set .series_list properly."
MsgTableInfo == "._self_table_info() did not set .table_info properly."
MsgNoDataframes == "No dataframes found for table_str."
MsgNoText == "No text found for child tag"

(***************************************************************************)
(* State.                                                                  *)
(***************************************************************************)

VARIABLES
    ctor,         \* a constructor call: its arguments and its outcome
    book,         \* a workbook handed to _process_dataframes and the outcome
    series_list,  \* self.series_list : Optional[list[ABSSeries]]
    table_info,   \* self.table_info : Optional[dict[str, str]]
    pc,           \* where the caller is: "idle", or suspended in "page1",
                  \* "batch" (get_many) or "bytes" (get_one_bytes)
    call,         \* the public method being run and its argument
    calls,        \* public calls made on the session so far
    fetchRuns,    \* runs of _get_timeseries_dict_xml so far
    issued,       \* page numbers requested by the current run, in order
    num_pages,    \* the NumPages child of page 1 in the current run
    got,          \* got[p]: the Series of page p once its fetch completed
    pending,      \* pages of the get_many batch still in flight
    arrival,      \* pages of the batch in the order they completed
    fetched,      \* outcome of the current run once it ended
    links,        \* table_links of the get_dataframe being run
    return_dict,  \* return_dict of the get_dataframe being run
    started,      \* workbook fetches started by the current call
    served,       \* workbooks received by the current call, in order
    result        \* outcome of the last public call, None while one runs

vars == <<ctor, book, series_list, table_info, pc, call, calls, fetchRuns, issued,
          num_pages, got, pending, arrival, fetched, links, return_dict, started,
          served, result>>

session == <<series_list, table_info, pc, call, calls, fetchRuns, issued,
             num_pages, got, pending, arrival, fetched, links, return_dict,
             started, served, result>>

NoCtor == [pc |-> "none", catno |-> None, seriesID |-> None, out |-> None]
NoBook == [pc |-> "none", wb |-> <<>>, out |-> None]
NoCall == [op |-> "", arg |-> <<>>]

\* The session right after a successful construction (lines 93-99).
InitSession ==
    /\ series_list = None
    /\ table_info = None
    /\ pc = "idle"
    /\ call = NoCall
    /\ calls = 0
    /\ fetchRuns = 0
    /\ issued = <<>>
    /\ num_pages = None
    /\ got = <<>>
    /\ pending = {}
    /\ arrival = <<>>
    /\ fetched = None
    /\ links = <<>>
    /\ return_dict = <<>>
    /\ started = 0
    /\ served = <<>>
    /\ result = None

(***************************************************************************)
(* The public methods, from the call to the return or the raise.           *)
(***************************************************************************)

Ok(value) == [kind |-> "ok", msg |-> "", value |-> value]
Raise(kind, msg) == [kind |-> kind, msg |-> msg, value |-> <<>>]

\* A transport failure caught and re-raised as the library's own error.
TransportFailureWrapped(p) == [kind |-> "ABSQueryError", msg |-> "", value |-> <<"page", p>>]

\* What the caller sees when the fetch of page p fails in the transport:
\* no try/except stands between aiohttp and the caller.
TransportFailure(p) == [kind |-> "TransportError", msg |-> "", value |-> <<"page", p>>]

Return(res) ==
    /\ pc' = "idle"
    /\ result' = Some(res)

NoDownload ==
    /\ links' = <<>>
    /\ return_dict' = <<>>
    /\ started' = 0
    /\ served' = <<>>

\* _get_table_info after _get_serieslist returned `list`, then the rest of
\* the public method c up to its return, its raise or its first download.
AfterSerieslist(c, list) ==
    LET info == IF list # <<>> /\ table_info = None
                  THEN Some(TableInfoOf(list))
                  ELSE table_info
    IN /\ table_info' = info
       /\ IF info = None
            THEN Return(Raise("ABSQueryError", MsgSeriesList)) /\ NoDownload
          ELSE IF c.op = "get_table_names"
            THEN Return(IF info[1] # <<>> THEN Ok(Keys(info[1])) ELSE Ok(None)) /\ NoDownload
          ELSE IF info[1] = <<>>
            THEN Return(Raise("ABSQueryError", MsgTableInfo)) /\ NoDownload
          ELSE IF c.op = "get_table_links"
            THEN Return(Ok(FilterLinks(info[1], c.arg))) /\ NoDownload
          ELSE IF FilterLinks(info[1], c.arg) = <<>>
            THEN /\ NoDownload
                 /\ Return(IF c.op = "get_dataframe"
                             THEN Ok(<<>>)
                             ELSE Raise("ABSQueryError", MsgNoDataframes))
          ELSE /\ pc' = "bytes"
               /\ result' = None
               /\ links' = FilterLinks(info[1], c.arg)
               /\ return_dict' = <<>>
               /\ started' = 1
               /\ served' = <<>>

\* A public method is called. With a truthy series_list nothing is fetched;
\* otherwise the caller suspends in get_one on the page-1 query.
Call(c) ==
    /\ pc = "idle"
    /\ calls < MaxCalls
    /\ call' = c
    /\ calls' = calls + 1
    /\ num_pages' = None
    /\ got' = <<>>
    /\ pending' = {}
    /\ arrival' = <<>>
    /\ fetched' = None
    /\ UNCHANGED <<ctor, book, series_list>>
    /\ IF NeedsFetch(series_list)
         THEN /\ pc' = "page1"
              /\ fetchRuns' = fetchRuns + 1
              /\ issued' = <<1>>
              /\ result' = None
              /\ NoDownload
              /\ UNCHANGED table_info
         ELSE /\ issued' = <<>>
              /\ UNCHANGED fetchRuns
              /\ AfterSerieslist(c, series_list[1])

\* All pages are in: lines 181-184, then the loop of _get_serieslist, then
\* the rest of the public method.
FinishFetch(page1, additional_pages) ==
    LET parsed == ParseSeries(IterSeries(page1, additional_pages))
    IN IF parsed.kind # "ok"
         THEN /\ fetched' = Some([kind |-> "ABSQueryError", records |-> <<>>])
              /\ Return(Raise("ABSQueryError", MsgNoText))
              /\ NoDownload
              /\ UNCHANGED <<series_list, table_info>>
         ELSE /\ fetched' = Some([kind |-> "ok", records |-> parsed.list])
              /\ series_list' = Some(parsed.list)
              /\ AfterSerieslist(call, parsed.list)

\* get_one returns page 1.
Page1Done(np, body) ==
    /\ pc = "page1"
    /\ num_pages' = np
    /\ UNCHANGED <<ctor, book, call, calls, fetchRuns, arrival>>
    /\ LET extra == ExtraPages(np)
           n == 1 + Cardinality(extra)
       IN IF extra # {}
            THEN /\ pc' = "batch"
                 /\ issued' = [p \in 1..n |-> p]
                 /\ pending' = extra
                 /\ got' = [p \in 1..n |-> IF p = 1 THEN Some(body) ELSE None]
                 /\ UNCHANGED <<series_list, table_info, fetched, links, return_dict,
                                started, served, result>>
            ELSE /\ got' = <<Some(body)>>
                 /\ UNCHANGED <<issued, pending>>
                 /\ FinishFetch(body, <<>>)

\* A fetch that fails in the transport ends the run and the call.
FetchFailed(p) ==
    /\ fetched' = Some([kind |-> "TransportError", records |-> <<>>])
    /\ Return(TransportFailure(p))
    /\ pending' = {}
    /\ UNCHANGED <<ctor, book, series_list, table_info, call, calls, fetchRuns, issued,
                   num_pages, got, arrival, links, return_dict, started, served>>

Page1Fail ==
    /\ pc = "page1"
    /\ FetchFailed(1)

\* One fetch of the batch completes; gather returns with the last one.
BatchPageDone(p, body) ==
    /\ pc = "batch"
    /\ p \in pending
    /\ pending' = pending \ {p}
    /\ got' = [got EXCEPT ![p] = Some(body)]
    /\ arrival' = Append(arrival, p)
    /\ UNCHANGED <<ctor, book, call, calls, fetchRuns, issued, num_pages>>
    /\ IF pending' = {}
         THEN FinishFetch(got[1][1], Gather(got', arrival'))
         ELSE UNCHANGED <<series_list, table_info, pc, fetched, links, return_dict,
                          started, served, result>>

\* One fetch of the batch fails: gather raises at once.
BatchPageFail(p) ==
    /\ pc = "batch"
    /\ p \in pending
    /\ FetchFailed(p)

\* What get_dataframe's caller sees when _process_dataframes raises: the
\* except clause of get_first_dataframe turns any KeyError into its own.
RaiseFromDataframe(op, kind) ==
    IF kind = "KeyError" /\ op = "get_first_dataframe"
      THEN Raise("ABSQueryError", MsgNoDataframes)
      ELSE Raise(kind, "")

\* asyncio.run(conn.get_one_bytes(url)) returns for the current item of
\* the loop; the item is processed and the loop goes on or ends.
BytesDone(wb) ==
    /\ pc = "bytes"
    /\ served' = Append(served, wb)
    /\ UNCHANGED <<ctor, book, series_list, table_info, call, calls, fetchRuns, issued,
                   num_pages, got, pending, arrival, fetched, links>>
    /\ LET i == Len(return_dict) + 1
           out == _process_dataframes(wb)
           rd == Append(return_dict, <<links[i][1], out.df>>)
       IN IF out.kind # "ok"
            THEN /\ Return(RaiseFromDataframe(call.op, out.kind))
                 /\ UNCHANGED <<return_dict, started>>
          ELSE IF i < Len(links)
            THEN /\ return_dict' = rd
                 /\ started' = started + 1
                 /\ UNCHANGED <<pc, result>>
          ELSE /\ return_dict' = rd
               /\ UNCHANGED started
               /\ Return(IF call.op = "get_dataframe" THEN Ok(rd) ELSE Ok(PopItem(rd)[2]))

BytesFail ==
    /\ pc = "bytes"
    /\ Return([kind |-> "TransportError", msg |-> "",
               value |-> <<"bytes", Len(return_dict) + 1>>])
    /\ UNCHANGED <<ctor, book, series_list, table_info, call, calls, fetchRuns, issued,
                   num_pages, got, pending, arrival, fetched, links, return_dict,
                   started, served>>

Init ==
    /\ ctor = NoCtor
    /\ book = NoBook
    /\ InitSession

Next ==
    \/ \E c \in Calls : Call(c)
    \/ \E np \in NumPagesFields, body \in PageBodies : Page1Done(np, body)
    \/ Page1Fail
    \/ \E p \in 2..MaxPages, body \in PageBodies : BatchPageDone(p, body)
    \/ \E p \in 2..MaxPages : BatchPageFail(p)
    \/ \E wb \in ServedWorkbooks : BytesDone(wb)
    \/ BytesFail

Spec == Init /\ [][Next]_vars

(***************************************************************************)
(* The constructor alone, over every argument pair.                        *)
(***************************************************************************)

New ==
    /\ ctor.pc = "new"
    /\ ctor' = [ctor EXCEPT !.pc = "done",
                            !.out = Some(__init__(ctor.catno, ctor.seriesID))]
    /\ UNCHANGED <<book, session>>

InitCtor ==
    /\ ctor \in [pc : {"new"}, catno : CatnoArgs, seriesID : SeriesIDArgs, out : {None}]
    /\ book = NoBook
    /\ InitSession

SpecCtor == InitCtor /\ [][New]_vars

(***************************************************************************)
(* _process_dataframes alone, over every workbook.                         *)
(***************************************************************************)

Process ==
    /\ book.pc = "raw"
    /\ book' = [book EXCEPT !.pc = "done", !.out = Some(_process_dataframes(book.wb))]
    /\ UNCHANGED <<ctor, session>>

InitBook ==
    /\ \E k \in 0..MaxSheets :
          \E names \in SheetNamesOf(k), bodies \in [1..k -> SheetBodies] :
              book = [pc |-> "raw", wb |-> Workbook(names, bodies), out |-> None]
    /\ ctor = NoCtor
    /\ InitSession

SpecBook == InitBook /\ [][Process]_vars

(***************************************************************************)
(* Properties of the session.                                              *)
(***************************************************************************)

Done == pc = "idle" /\ result # None

\* The page count N that page 1 reports: an absent or empty NumPages or a
\* count of at most 1 is one page.
PageCount(np) ==
    IF np = None \/ np[1] = <<>> THEN 1
    ELSE IF IntOf(np[1]) <= 1 THEN 1 ELSE IntOf(np[1])

\* The Series of pages 1..n as the endpoint served them, page after page.
RECURSIVE PagesInOrder(_, _)
PagesInOrder(g, n) == IF n = 0 THEN <<>> ELSE PagesInOrder(g, n - 1) \o g[n][1]

\* C1: once a catalogue fetch has returned a catalogue (series_list holds
\* its records, none included), no later call runs the catalogue fetch again.
C1_FetchedOnce == [][series_list # None => fetchRuns' = fetchRuns]_vars

\* C2: a catalogue fetch requests each of the pages 1..N exactly once, page 1
\* first and then pages 2..N as one batch that is all in flight before any of
\* it is awaited; its records are those of page 1, then page 2, ..., page N,
\* each page in its own order, whatever the order the batch completed in.
C2_PagesInOrder ==
    /\ pc = "batch" =>
          /\ issued = [p \in 1..PageCount(num_pages) |-> p]
          /\ PageCount(num_pages) > 1
          /\ pending \cup {arrival[i] : i \in 1..Len(arrival)} = 2..PageCount(num_pages)
    /\ fetched # None /\ fetched[1].kind # "TransportError" =>
          /\ issued = [p \in 1..PageCount(num_pages) |-> p]
          /\ Len(arrival) = PageCount(num_pages) - 1
    /\ fetched # None /\ fetched[1].kind = "ok" =>
          fetched[1].records = PagesInOrder(got, PageCount(num_pages))

\* C2 witness: three pages, page 3 completed before page 2, and the records
\* came back with page 2's before page 3's.
C2_Witness ==
    /\ fetched # None
    /\ fetched[1].kind = "ok"
    /\ arrival = <<3, 2>>
    /\ got[2][1] = <<Series1, Series2>>
    /\ got[3][1] = <<Series2, Series3>>
    /\ fetched[1].records = got[1][1] \o <<Series1, Series2, Series2, Series3>>

\* The catalogue the current call works on, when its fetch returned one:
\* the cached one if the call fetched nothing, the fetched one otherwise.
CatalogueReturned ==
    \/ fetched = None /\ series_list # None
    \/ fetched # None /\ fetched[1].kind = "ok"

Items(d) == {d[i] : i \in 1..Len(d)}

\* C3: when the catalogue fetch returned, get_table_links(t) raises
\* ABSQueryError if the catalogue has no record, and otherwise returns exactly
\* the entries of table_info whose title contains t, none being no error.
C3_LinksOrEmptyCatalogue ==
    Done /\ call.op = "get_table_links" /\ CatalogueReturned =>
        IF series_list[1] = <<>>
          THEN result[1].kind = "ABSQueryError"
          ELSE /\ result[1].kind = "ok"
               /\ Len(result[1].value) = Cardinality(Items(result[1].value))
               /\ Items(result[1].value) =
                     {kv \in Items(table_info[1]) : Contains(call.arg, kv[1])}

\* C3 witness: a catalogue with records, a title nothing contains, and the
\* empty mapping returned.
C3_Witness ==
    /\ Done
    /\ call = [op |-> "get_table_links", arg |-> <<"x">>]
    /\ series_list # None
    /\ Len(series_list[1]) >= 2
    /\ result[1] = Ok(<<>>)

AnyNoText(g) ==
    \E p \in 1..Len(g) : g[p] # None /\ \E i \in 1..Len(g[p][1]) : ~HasText(g[p][1][i])

\* C4: a catalogue fetch whose pages all arrived and hold a Series with an
\* empty child ends in ABSQueryError, hands back no record, and leaves
\* series_list and table_info as they were.
C4_MalformedFailsWhole ==
    [][(fetched = None /\ fetched' # None /\ fetched'[1].kind # "TransportError"
            /\ AnyNoText(got'))
        => /\ fetched'[1] = [kind |-> "ABSQueryError", records |-> <<>>]
           /\ result' = Some(Raise("ABSQueryError", MsgNoText))
           /\ series_list' = series_list
           /\ table_info' = table_info]_vars

\* C4 witness: pages 1 and 2 are sound, the second Series of page 3 has an
\* empty child, and the call ended in ABSQueryError with nothing cached.
C4_Witness ==
    /\ Done
    /\ fetched # None
    /\ fetched[1].kind = "ABSQueryError"
    /\ Len(got) = 3
    /\ got[1][1] = <<Series1>>
    /\ got[2][1] = <<Series1, Series2>>
    /\ got[3][1] = <<Series1, SeriesNoText>>
    /\ series_list = None
    /\ table_info = None

(***************************************************************************)
(* Properties of _process_dataframes.                                      *)
(***************************************************************************)

Processed == book.pc = "done"

\* The sheets of the processed workbook whose name contains "Data".
DataSheetsOf(wb) ==
    LET named(sh) == Contains(<<"D", "a", "t", "a">>, sh.name) IN SelectSeq(wb, named)

Occurrences(c, cells) == Cardinality({i \in 1..Len(cells) : cells[i] = c})

RowsFor(c, df) == Cardinality({i \in 1..Len(df.rows) : df.rows[i].k = c})

\* The number of ways to pick one row with Date c from each of the sheets.
RECURSIVE Combinations(_, _)
Combinations(c, sheets) ==
    IF sheets = <<>> THEN 1
    ELSE Occurrences(c, Head(sheets).body.cells) * Combinations(c, Tail(sheets))

\* Every column of the table comes from a Data sheet, one per Data sheet.
ColumnsOfDataSheets(df, sheets) ==
    /\ df.width = Len(sheets)
    /\ \A i \in 1..Len(df.rows) :
          /\ Len(df.rows[i].data) = Len(sheets)
          /\ \A j \in 1..Len(sheets) : df.rows[i].data[j][1] = sheets[j].name

EndsInDot0(s) == Len(s) >= 2 /\ s[Len(s) - 1] = "." /\ s[Len(s)] = "0"

\* C6: for every string passed as catno, with or without a seriesID, the
\* constructor yields a CatNo identifier if the string ends in ".0" and raises
\* ABSQueryError "catno must end in '.0'" if it does not.
C6_SuffixDecides ==
    ctor.pc = "done" /\ ctor.catno # None =>
        IF EndsInDot0(ctor.catno[1])
          THEN /\ ctor.out[1].kind = "ok"
               /\ ctor.out[1].tag = "CatNo"
               /\ ctor.out[1].value = ctor.catno[1]
          ELSE /\ ctor.out[1].kind = "ABSQueryError"
               /\ ctor.out[1].msg = MsgCatno

(***************************************************************************)
(* Properties of the downloads.                                            *)
(***************************************************************************)

Downloading == call.op \in {"get_dataframe", "get_first_dataframe"}

\* C7: when get_dataframe(t) returns a mapping that is not empty,
\* get_first_dataframe(t) returns the table of its first entry.
C7_FirstEntry ==
    Done /\ call.op = "get_first_dataframe" /\ result[1].kind = "ok" =>
        result[1].value = return_dict[1][2]

\* C8: a download whose workbook has no sheet with "Data" in its name ends in
\* ABSQueryError, in get_dataframe and in get_first_dataframe.
C8_NoDataSheets ==
    (/\ Done
     /\ Downloading
     /\ served # <<>>
     /\ result[1].kind # "TransportError"
     /\ DataSheetsOf(served[Len(served)]) = <<>>)
    => result[1].kind = "ABSQueryError"

\* C9: while get_dataframe waits for a workbook, the fetches of all the k >= 2
\* matching workbooks have been started.
C9_FanOut == pc = "bytes" /\ Len(links) >= 2 => started = Len(links)

MissingPage(g) == g = <<>> \/ \E p \in 1..Len(g) : g[p] = None

\* C10: when a fetch of a catalogue fetch fails in the transport, the call
\* ends with that page's transport error, hands back no record of the pages
\* that arrived, and leaves series_list and table_info as they were: without
\* a catalogue, table_info None and series_list None if it was None.
C10_TransportFailsWhole ==
    [][(pc \in {"page1", "batch"} /\ pc' = "idle" /\ MissingPage(got'))
        => /\ \E p \in (IF pc = "page1" THEN {1} ELSE pending) :
                 result' = Some([kind |-> "TransportError", msg |-> "",
                                 value |-> <<"page", p>>])
           /\ fetched' = Some([kind |-> "TransportError", records |-> <<>>])
           /\ series_list' = series_list
           /\ table_info' = table_info
           /\ table_info' = None
           /\ series_list' = None \/ series_list'[1] = <<>>
           /\ series_list = None => series_list' = None]_vars

\* C10 witness: of three pages, page 3 arrived with records, then the fetch
\* of page 2 failed; the call ended in that error with nothing cached.
C10_Witness ==
    /\ Done
    /\ result[1].kind = "TransportError"
    /\ result[1].value = <<"page", 2>>
    /\ arrival = <<3>>
    /\ got[1] = Some(<<Series1>>)
    /\ got[3] = Some(<<Series1, Series2>>)
    /\ series_list = None
    /\ table_info = None

(***************************************************************************)
(* Properties of the cached catalogue.                                     *)
(***************************************************************************)

\* The URL of the last record of list whose title is t.
LastURL(list, t) ==
    list[CHOOSE i \in 1..Len(list) :
            /\ list[i].TableTitle = t
            /\ \A j \in (i + 1)..Len(list) : list[j].TableTitle # t].TableURL

\* info maps every title of list, and no other, to the URL of the last
\* record with that title, each title once.
IsLastWinsFold(info, list) ==
    /\ Len(info) = Cardinality(Items(info))
    /\ Items(info) =
          {<<list[i].TableTitle, LastURL(list, list[i].TableTitle)>> : i \in 1..Len(list)}

CatalogueCached == series_list # None /\ series_list[1] # <<>>

\* C11: in every state of the session table_info is None or the last-wins
\* fold TableTitle -> TableURL of series_list, it is set only while
\* series_list is a sequence that is not empty, and once series_list is such
\* a sequence neither series_list nor table_info changes again.
C11_IndexIsFoldAndFrozen ==
    /\ [](table_info # None =>
            /\ CatalogueCached
            /\ IsLastWinsFold(table_info[1], series_list[1]))
    /\ [][CatalogueCached =>
            /\ series_list' = series_list
            /\ table_info' = table_info]_vars

\* C11 witness: a cached catalogue in which a title occurs twice with two
\* URLs, the second one indexed, still in place after a second call that
\* fetched nothing.
C11_Witness ==
    /\ Done
    /\ calls = 2
    /\ fetchRuns = 1
    /\ series_list = Some(<<Series1, Series2, Series3>>)
    /\ table_info = Some(<< <<Title1, URL2>>, <<Title2, URL2>> >>)

====
